---- MODULE Spec2Model ----
(***************************************************************************)
(* Model of @thinkmill/devops-env-vars (src/unnamed/part_000): the         *)
(* environment resolver determineAppEnv, the flag builder buildAppFlags    *)
(* and the configuration merger mergeConfig, run in the order the README   *)
(* prescribes: determineAppEnv -> buildAppFlags -> mergeConfig, after      *)
(* which config.js adds its own entries, freezes the object and exports    *)
(* it.                                                                     *)
(*                                                                         *)
(* JavaScript strings are sequences of one-character strings, so that      *)
(* toLowerCase, toUpperCase, toString and parseInt are computed and not    *)
(* assumed.  JavaScript values are tagged records.                         *)
(***************************************************************************)
EXTENDS Integers, Sequences, FiniteSets, TLC

(***************************************************************************)
(* Bounds of the exploration.                                              *)
(***************************************************************************)
\* longest string generated exhaustively over Alphabet
MaxLen == 2
\* largest number of rules in a generated rule set
MaxRules == 2

(***************************************************************************)
(* JavaScript values.                                                      *)
(***************************************************************************)
Undefined == [t |-> "undefined"]
NaN == [t |-> "NaN"]
Str(s) == [t |-> "string", s |-> s]
Num(n) == [t |-> "number", n |-> n]
Bool(b) == [t |-> "boolean", b |-> b]

\* typeof v
TypeOf(v) == IF v.t = "NaN" THEN "number" ELSE v.t

\* isNaN(v), for v the result of parseInt
IsNaN(v) == v.t = "NaN"

\* ToBoolean(v): the truthiness `if (v)` tests
Truthy(v) ==
    CASE v.t = "undefined" -> FALSE
      [] v.t = "NaN" -> FALSE
      [] v.t = "string" -> Len(v.s) > 0
      [] v.t = "number" -> v.n # 0
      [] v.t = "boolean" -> v.b

(***************************************************************************)
(* String.prototype.toLowerCase / toUpperCase on ASCII.                    *)
(***************************************************************************)
UpperLetters ==
    << "A", "B", "C", "D", "E", "F", "G", "H", "I", "J", "K", "L", "M",
       "N", "O", "P", "Q", "R", "S", "T", "U", "V", "W", "X", "Y", "Z" >>

LowerLetters ==
    << "a", "b", "c", "d", "e", "f", "g", "h", "i", "j", "k", "l", "m",
       "n", "o", "p", "q", "r", "s", "t", "u", "v", "w", "x", "y", "z" >>

LowerChar(c) ==
    IF \E i \in 1..26 : UpperLetters[i] = c
    THEN LowerLetters[CHOOSE i \in 1..26 : UpperLetters[i] = c]
    ELSE c

UpperChar(c) ==
    IF \E i \in 1..26 : LowerLetters[i] = c
    THEN UpperLetters[CHOOSE i \in 1..26 : LowerLetters[i] = c]
    ELSE c

toLowerCase(s) == [i \in 1..Len(s) |-> LowerChar(s[i])]

toUpperCase(s) == [i \in 1..Len(s) |-> UpperChar(s[i])]

(***************************************************************************)
(* Number.prototype.toString (radix 10, integers) and toString of the      *)
(* other primitives.                                                       *)
(***************************************************************************)
DecDigits == << "0", "1", "2", "3", "4", "5", "6", "7", "8", "9" >>

RECURSIVE NatToStr(_)
NatToStr(n) ==
    IF n < 10 THEN << DecDigits[n + 1] >>
    ELSE Append(NatToStr(n \div 10), DecDigits[(n % 10) + 1])

IntToStr(n) == IF n < 0 THEN << "-" >> \o NatToStr(0 - n) ELSE NatToStr(n)

\* v.toString(); undefined has no toString and the call throws a TypeError,
\* which the caller tests for before using this.
toString(v) ==
    CASE v.t = "string" -> v.s
      [] v.t = "number" -> IntToStr(v.n)
      [] v.t = "boolean" ->
            IF v.b THEN << "t", "r", "u", "e" >> ELSE << "f", "a", "l", "s", "e" >>

(***************************************************************************)
(* parseInt(s) with no radix argument (ECMAScript): skip leading white     *)
(* space, read an optional sign, switch to radix 16 on a 0x / 0X prefix,   *)
(* read the longest prefix of digits of the radix; NaN when it is empty.   *)
(***************************************************************************)
WhiteSpace == { " ", "\t", "\n" }

HexDigits ==
    << "0", "1", "2", "3", "4", "5", "6", "7", "8", "9",
       "a", "b", "c", "d", "e", "f" >>

\* the value of digit c in the radix, or -1 when c is no digit of it
DigitValue(c, radix) ==
    LET lc == LowerChar(c)
    IN  IF \E i \in 1..radix : HexDigits[i] = lc
        THEN (CHOOSE i \in 1..radix : HexDigits[i] = lc) - 1
        ELSE -1

RECURSIVE SkipWhiteSpace(_)
SkipWhiteSpace(s) ==
    IF Len(s) > 0 /\ Head(s) \in WhiteSpace THEN SkipWhiteSpace(Tail(s)) ELSE s

\* the digits of s from position i on, accumulated into acc; seen tells whether
\* any digit was read
RECURSIVE ReadDigits(_, _, _, _, _)
ReadDigits(s, i, radix, acc, seen) ==
    IF i <= Len(s) /\ DigitValue(s[i], radix) >= 0
    THEN ReadDigits(s, i + 1, radix, acc * radix + DigitValue(s[i], radix), TRUE)
    ELSE [seen |-> seen, value |-> acc]

parseInt(str) ==
    LET s0 == SkipWhiteSpace(str)
        neg == Len(s0) > 0 /\ Head(s0) = "-"
        s1 == IF Len(s0) > 0 /\ Head(s0) \in { "+", "-" } THEN Tail(s0) ELSE s0
        hex == Len(s1) >= 2 /\ s1[1] = "0" /\ s1[2] \in { "x", "X" }
        s2 == IF hex THEN Tail(Tail(s1)) ELSE s1
        r == ReadDigits(s2, 1, IF hex THEN 16 ELSE 10, 0, FALSE)
    IN  IF ~r.seen THEN NaN
        ELSE Num(IF neg THEN 0 - r.value ELSE r.value)

(***************************************************************************)
(* Array.prototype.indexOf / includes over an array of strings.            *)
(***************************************************************************)
\* arr.indexOf(v): strict equality, 0-based, -1 when absent
IndexOf(arr, v) ==
    IF v.t = "string" /\ \E i \in 1..Len(arr) : arr[i] = v.s
    THEN (CHOOSE i \in 1..Len(arr) :
            arr[i] = v.s /\ \A j \in 1..(i - 1) : arr[j] # v.s) - 1
    ELSE -1

Includes(arr, s) == \E i \in 1..Len(arr) : arr[i] = s

(***************************************************************************)
(* The environments the library supports.                                  *)
(***************************************************************************)
live == << "l", "i", "v", "e" >>
staging == << "s", "t", "a", "g", "i", "n", "g" >>
testing == << "t", "e", "s", "t", "i", "n", "g" >>
development == << "d", "e", "v", "e", "l", "o", "p", "m", "e", "n", "t" >>
production == << "p", "r", "o", "d", "u", "c", "t", "i", "o", "n" >>

SUPPORTED_ENVS == << live, staging, testing, development >>

(***************************************************************************)
(* IPv4 addresses and CIDR blocks (the netmask package).                   *)
(***************************************************************************)
Ip(a, b, c, d) == << a, b, c, d >>

IpNum(ip) == ((ip[1] * 256 + ip[2]) * 256 + ip[3]) * 256 + ip[4]

RECURSIVE Pow2(_)
Pow2(n) == IF n = 0 THEN 1 ELSE 2 * Pow2(n - 1)

Cidr(a, b, c, d, bits) == [addr |-> Ip(a, b, c, d), bits |-> bits]

\* new Netmask(cidr).contains(ip): ip and the block's address agree on the
\* first `bits` bits
NetmaskContains(cidr, ip) ==
    IpNum(ip) \div Pow2(32 - cidr.bits) = IpNum(cidr.addr) \div Pow2(32 - cidr.bits)

Vpc(cidr, env) == [cidr |-> cidr, env |-> env]

\* the table the module is shipped with
AWS_VPCS ==
    << Vpc(Cidr(10, 117, 0, 0, 16), live),
       Vpc(Cidr(10, 118, 0, 0, 16), staging),
       Vpc(Cidr(10, 119, 0, 0, 16), testing),
       Vpc(Cidr(10, 130, 0, 0, 16), live),
       Vpc(Cidr(10, 131, 0, 0, 16), staging),
       Vpc(Cidr(10, 132, 0, 0, 16), testing),
       Vpc(Cidr(10, 20, 0, 0, 16), live),
       Vpc(Cidr(10, 21, 0, 0, 16), staging),
       Vpc(Cidr(10, 22, 0, 0, 16), testing) >>


(***************************************************************************)
(* Results of a call: a returned value or a thrown error.                  *)
(***************************************************************************)
Return(v) == [threw |-> FALSE, value |-> v]
Throw(e) == [threw |-> TRUE, error |-> e]

NoError == [kind |-> "none"]

(***************************************************************************)
(* getServerIp: the address of the first external IPv4 interface, or       *)
(* 0.0.0.0.  ifaces is os.networkInterfaces(): one array of addresses per  *)
(* interface name, in key order.                                           *)
(***************************************************************************)
RECURSIVE Flatten(_)
Flatten(arrs) == IF arrs = << >> THEN << >> ELSE Head(arrs) \o Flatten(Tail(arrs))

IsExternalIPv4(val) == val.family = "IPv4" /\ val.internal = FALSE

getServerIp(ifaces) ==
    LET values == SelectSeq(Flatten(ifaces), IsExternalIPv4)
    IN  IF Len(values) # 0 THEN values[1].address ELSE Ip(0, 0, 0, 0)

(***************************************************************************)
(* determineAppEnv(_processAppEnv), with the interfaces of the host and    *)
(* the content of the VPC table made explicit.                             *)
(***************************************************************************)
AmbiguousEnvironment(possibleVpcs) ==
    [kind |-> "AmbiguousEnvironment", vpcs |-> possibleVpcs]

\* determineAppEnv without the check for several matching blocks: the last
\* matching block decides
determineAppEnv_LastMatchWins(argAppEnv, ifaces, vpcs) ==
    LET processAppEnv ==
            IF IndexOf(SUPPORTED_ENVS, argAppEnv) > -1 THEN argAppEnv ELSE Undefined
        serverIp == getServerIp(ifaces)
        Possible(vpc) ==
            NetmaskContains(vpc.cidr, serverIp) /\ Includes(SUPPORTED_ENVS, vpc.env)
        possibleVpcs == SelectSeq(vpcs, Possible)
    IN  IF Truthy(processAppEnv) THEN Return(processAppEnv)
        ELSE IF Len(possibleVpcs) >= 1 THEN Return(Str(possibleVpcs[Len(possibleVpcs)].env))
        ELSE Return(Str(development))

\* determineAppEnv that looks at the server's address first
determineAppEnv_AddressFirst(argAppEnv, ifaces, vpcs) ==
    LET processAppEnv ==
            IF IndexOf(SUPPORTED_ENVS, argAppEnv) > -1 THEN argAppEnv ELSE Undefined
        serverIp == getServerIp(ifaces)
        Possible(vpc) ==
            NetmaskContains(vpc.cidr, serverIp) /\ Includes(SUPPORTED_ENVS, vpc.env)
        possibleVpcs == SelectSeq(vpcs, Possible)
    IN  IF Len(possibleVpcs) > 1 THEN Throw(AmbiguousEnvironment(possibleVpcs))
        ELSE IF Len(possibleVpcs) = 1 THEN Return(Str(possibleVpcs[1].env))
        ELSE IF Truthy(processAppEnv) THEN Return(processAppEnv)
        ELSE Return(Str(development))

\* determineAppEnv that does not validate the value supplied
determineAppEnv_AnyOverride(argAppEnv, ifaces, vpcs) ==
    LET processAppEnv == argAppEnv
        serverIp == getServerIp(ifaces)
        Possible(vpc) ==
            NetmaskContains(vpc.cidr, serverIp) /\ Includes(SUPPORTED_ENVS, vpc.env)
        possibleVpcs == SelectSeq(vpcs, Possible)
    IN  IF Truthy(processAppEnv) THEN Return(processAppEnv)
        ELSE IF Len(possibleVpcs) > 1 THEN Throw(AmbiguousEnvironment(possibleVpcs))
        ELSE IF Len(possibleVpcs) = 1 THEN Return(Str(possibleVpcs[1].env))
        ELSE Return(Str(development))

determineAppEnv(argAppEnv, ifaces, vpcs) ==
    LET processAppEnv ==
            IF IndexOf(SUPPORTED_ENVS, argAppEnv) > -1 THEN argAppEnv ELSE Undefined
        serverIp == getServerIp(ifaces)
        Possible(vpc) ==
            NetmaskContains(vpc.cidr, serverIp) /\ Includes(SUPPORTED_ENVS, vpc.env)
        possibleVpcs == SelectSeq(vpcs, Possible)
    IN  IF Truthy(processAppEnv) THEN Return(processAppEnv)
        ELSE IF Len(possibleVpcs) > 1 THEN Throw(AmbiguousEnvironment(possibleVpcs))
        ELSE IF Len(possibleVpcs) = 1 THEN Return(Str(possibleVpcs[1].env))
        ELSE Return(Str(development))

(***************************************************************************)
(* buildAppFlags(appEnv): one IN_<ENV> flag per supported environment,     *)
(* assigned in the order of SUPPORTED_ENVS, then IN_PRODUCTION.            *)
(***************************************************************************)
IN_ == << "I", "N", "_" >>

FlagKey(env) == IN_ \o toUpperCase(env)

IN_LIVE == IN_ \o << "L", "I", "V", "E" >>
IN_STAGING == IN_ \o << "S", "T", "A", "G", "I", "N", "G" >>
IN_PRODUCTION == IN_ \o << "P", "R", "O", "D", "U", "C", "T", "I", "O", "N" >>
APP_ENV == << "A", "P", "P", "_", "E", "N", "V" >>

\* obj[key] = val
Assign(obj, key, val) ==
    [k \in DOMAIN obj \cup { key } |-> IF k = key THEN val ELSE obj[k]]

\* obj[key], undefined when obj has no such property
Get(obj, key) == IF key \in DOMAIN obj THEN obj[key] ELSE Undefined

\* Object.assign(target, source)
ObjectAssign(target, source) ==
    [k \in DOMAIN target \cup DOMAIN source |->
        IF k \in DOMAIN source THEN source[k] ELSE target[k]]

EmptyObject == [k \in {} |-> Undefined]

\* a || b
Or(a, b) == IF Truthy(a) THEN a ELSE b

\* the forEach loop over SUPPORTED_ENVS from index i on
RECURSIVE FlagsLoop(_, _, _)
FlagsLoop(appEnv, i, flags) ==
    IF i > Len(SUPPORTED_ENVS) THEN flags
    ELSE FlagsLoop(appEnv, i + 1,
            Assign(flags, FlagKey(SUPPORTED_ENVS[i]), Bool(Str(SUPPORTED_ENVS[i]) = appEnv)))

\* buildAppFlags with IN_PRODUCTION covering live only
buildAppFlags_LiveOnly(appEnv) ==
    LET flags == FlagsLoop(appEnv, 1, EmptyObject)
    IN  Assign(flags, IN_PRODUCTION, Get(flags, IN_LIVE))

buildAppFlags(appEnv) ==
    LET flags == FlagsLoop(appEnv, 1, EmptyObject)
    IN  Assign(flags, IN_PRODUCTION, Or(Get(flags, IN_LIVE), Get(flags, IN_STAGING)))


(***************************************************************************)
(* mergeConfig(appEnv, appFlags, processEnv, rules).  processEnv maps      *)
(* names to strings; rules is the sequence of the rule object's entries    *)
(* in Object.keys order, each << varName, varRule >> flattened into a      *)
(* record.  A rule has `required`, may have `default` (hasDefault) and may *)
(* have `type` (hasType), the name of the constructor given.               *)
(***************************************************************************)
Rule(key, required, hasDefault, default, hasType, type) ==
    [key |-> key, required |-> required, hasDefault |-> hasDefault,
     default |-> default, hasType |-> hasType, type |-> type]

\* the errors mergeConfig throws, named as the specification names them
MissingRequiredVariable(varName) ==
    [kind |-> "MissingRequiredVariable", key |-> varName, type |-> "none"]

InvalidVariableType(varName, type) ==
    [kind |-> "InvalidVariableType", key |-> varName, type |-> type]

UnrecognizedType(varName, type) ==
    [kind |-> "UnrecognizedType", key |-> varName, type |-> type]

\* undefined.toString(): the runtime's TypeError
TypeErrorOfUndefined(varName) ==
    [kind |-> "TypeError", key |-> varName, type |-> "none"]

yes == << "y", "e", "s" >>
true == << "t", "r", "u", "e" >>
false == << "f", "a", "l", "s", "e" >>
no == << "n", "o" >>

TrueWords == { yes, true, << "y" >>, << "t" >> }
BooleanWords == TrueWords \cup { false, no, << "f" >>, << "n" >> }

\* the coercion block taking only positive numbers for true
Coerce_PositiveOnly(varName, varRule, supplied) ==
    IF TypeOf(supplied) = "undefined" THEN Throw(TypeErrorOfUndefined(varName))
    ELSE
    LET suppliedStr == toLowerCase(toString(supplied))
        suppliedNum == parseInt(suppliedStr)
    IN  CASE varRule.type = "Boolean" ->
                IF /\ TypeOf(supplied) # "boolean"
                   /\ suppliedStr \notin BooleanWords
                   /\ IsNaN(suppliedNum)
                THEN Throw(InvalidVariableType(varName, "Boolean"))
                ELSE Return(Bool(\/ supplied = Bool(TRUE)
                                 \/ suppliedStr \in TrueWords
                                 \/ (~IsNaN(suppliedNum) /\ suppliedNum.n > 0)))
          [] varRule.type = "Number" ->
                IF IsNaN(suppliedNum)
                THEN Throw(InvalidVariableType(varName, "Number"))
                ELSE Return(suppliedNum)
          [] varRule.type = "String" ->
                IF supplied # Str(suppliedStr)
                THEN Throw(InvalidVariableType(varName, "String"))
                ELSE Return(supplied)
          [] OTHER -> Throw(UnrecognizedType(varName, varRule.type))

\* the coercion block taking a Number only when the whole string is one
Coerce_StrictNumber(varName, varRule, supplied) ==
    IF TypeOf(supplied) = "undefined" THEN Throw(TypeErrorOfUndefined(varName))
    ELSE
    LET suppliedStr == toLowerCase(toString(supplied))
        suppliedNum == parseInt(suppliedStr)
    IN  CASE varRule.type = "Boolean" ->
                IF /\ TypeOf(supplied) # "boolean"
                   /\ suppliedStr \notin BooleanWords
                   /\ IsNaN(suppliedNum)
                THEN Throw(InvalidVariableType(varName, "Boolean"))
                ELSE Return(Bool(\/ supplied = Bool(TRUE)
                                 \/ suppliedStr \in TrueWords
                                 \/ (~IsNaN(suppliedNum) /\ suppliedNum.n > 0)
                                 \/ (~IsNaN(suppliedNum) /\ suppliedNum.n < 0)))
          [] varRule.type = "Number" ->
                IF IsNaN(suppliedNum) \/ toString(suppliedNum) # suppliedStr
                THEN Throw(InvalidVariableType(varName, "Number"))
                ELSE Return(suppliedNum)
          [] varRule.type = "String" ->
                IF supplied # Str(suppliedStr)
                THEN Throw(InvalidVariableType(varName, "String"))
                ELSE Return(supplied)
          [] OTHER -> Throw(UnrecognizedType(varName, varRule.type))

\* the coercion block of the loop body, for a rule that has a type
Coerce(varName, varRule, supplied) ==
    IF TypeOf(supplied) = "undefined" THEN Throw(TypeErrorOfUndefined(varName))
    ELSE
    LET suppliedStr == toLowerCase(toString(supplied))
        suppliedNum == parseInt(suppliedStr)
    IN  CASE varRule.type = "Boolean" ->
                IF /\ TypeOf(supplied) # "boolean"
                   /\ suppliedStr \notin BooleanWords
                   /\ IsNaN(suppliedNum)
                THEN Throw(InvalidVariableType(varName, "Boolean"))
                ELSE Return(Bool(\/ supplied = Bool(TRUE)
                                 \/ suppliedStr \in TrueWords
                                 \/ (~IsNaN(suppliedNum) /\ suppliedNum.n > 0)
                                 \/ (~IsNaN(suppliedNum) /\ suppliedNum.n < 0)))
          [] varRule.type = "Number" ->
                IF IsNaN(suppliedNum)
                THEN Throw(InvalidVariableType(varName, "Number"))
                ELSE Return(suppliedNum)
          [] varRule.type = "String" ->
                IF supplied # Str(suppliedStr)
                THEN Throw(InvalidVariableType(varName, "String"))
                ELSE Return(supplied)
          [] OTHER -> Throw(UnrecognizedType(varName, varRule.type))

\* the loop body without the check of `required`
ProcessRule_NoRequiredCheck(processEnv, varRule) ==
    LET varName == varRule.key
        fromEnv ==
            IF varName \in DOMAIN processEnv THEN Str(processEnv[varName])
            ELSE Undefined
        supplied ==
            IF varRule.hasDefault /\ TypeOf(fromEnv) = "undefined"
            THEN varRule.default ELSE fromEnv
    IN  IF varRule.hasType THEN Coerce(varName, varRule, supplied)
        ELSE Return(supplied)

\* the loop body with the default applied before `required` is checked
ProcessRule_DefaultFirst(processEnv, varRule) ==
    LET varName == varRule.key
        fromEnv ==
            IF varName \in DOMAIN processEnv THEN Str(processEnv[varName])
            ELSE Undefined
        supplied ==
            IF varRule.hasDefault /\ TypeOf(fromEnv) = "undefined"
            THEN varRule.default ELSE fromEnv
    IN  IF varRule.required /\ TypeOf(supplied) = "undefined"
        THEN Throw(MissingRequiredVariable(varName))
        ELSE IF varRule.hasType THEN Coerce(varName, varRule, supplied)
        ELSE Return(supplied)

\* the loop body reading the source value in lower case
ProcessRule_LowerCasesSource(processEnv, varRule) ==
    LET varName == varRule.key
        fromEnv ==
            IF varName \in DOMAIN processEnv THEN Str(toLowerCase(processEnv[varName]))
            ELSE Undefined
        supplied ==
            IF varRule.hasDefault /\ TypeOf(fromEnv) = "undefined"
            THEN varRule.default ELSE fromEnv
    IN  IF varRule.required /\ TypeOf(fromEnv) = "undefined"
        THEN Throw(MissingRequiredVariable(varName))
        ELSE IF varRule.hasType THEN Coerce(varName, varRule, supplied)
        ELSE Return(supplied)

\* the loop body coercing source values only, a default being stored as given
ProcessRule_DefaultsUncoerced(processEnv, varRule) ==
    LET varName == varRule.key
        fromEnv ==
            IF varName \in DOMAIN processEnv THEN Str(processEnv[varName])
            ELSE Undefined
        supplied ==
            IF varRule.hasDefault /\ TypeOf(fromEnv) = "undefined"
            THEN varRule.default ELSE fromEnv
    IN  IF varRule.required /\ TypeOf(fromEnv) = "undefined"
        THEN Throw(MissingRequiredVariable(varName))
        ELSE IF varRule.hasType /\ TypeOf(fromEnv) # "undefined"
        THEN Coerce(varName, varRule, supplied)
        ELSE Return(supplied)

\* one iteration of the loop: the value to store under the rule's key, or
\* the error thrown
ProcessRule(processEnv, varRule) ==
    LET varName == varRule.key
        fromEnv ==
            IF varName \in DOMAIN processEnv THEN Str(processEnv[varName])
            ELSE Undefined
        supplied ==
            IF varRule.hasDefault /\ TypeOf(fromEnv) = "undefined"
            THEN varRule.default ELSE fromEnv
    IN  IF varRule.required /\ TypeOf(fromEnv) = "undefined"
        THEN Throw(MissingRequiredVariable(varName))
        ELSE IF varRule.hasType THEN Coerce(varName, varRule, supplied)
        ELSE Return(supplied)

\* the loop storing a value only when there is one, as releases without
\* types did
RECURSIVE RulesLoop_SkipUndefined(_, _, _, _)
RulesLoop_SkipUndefined(processEnv, rules, i, config) ==
    IF i > Len(rules) THEN Return(config)
    ELSE LET r == ProcessRule(processEnv, rules[i])
         IN  IF r.threw THEN r
             ELSE RulesLoop_SkipUndefined(processEnv, rules, i + 1,
                    IF TypeOf(r.value) = "undefined" THEN config
                    ELSE Assign(config, rules[i].key, r.value))

\* the loop over ruleKeys from index i on
RECURSIVE RulesLoop(_, _, _, _)
RulesLoop(processEnv, rules, i, config) ==
    IF i > Len(rules) THEN Return(config)
    ELSE LET r == ProcessRule(processEnv, rules[i])
         IN  IF r.threw THEN r
             ELSE RulesLoop(processEnv, rules, i + 1, Assign(config, rules[i].key, r.value))

\* the final assignment with the flags applied after APP_ENV
AddEnvAndFlags_EnvBeforeFlags(config, appEnv, appFlags) ==
    ObjectAssign(ObjectAssign(config, [k \in { APP_ENV } |-> appEnv]), appFlags)

\* the final assignment with the rule values applied last
AddEnvAndFlags_RulesLast(config, appEnv, appFlags) ==
    ObjectAssign(ObjectAssign(appFlags, [k \in { APP_ENV } |-> appEnv]), config)

\* Object.assign(config, appFlags, { APP_ENV: appEnv })
AddEnvAndFlags(config, appEnv, appFlags) ==
    ObjectAssign(ObjectAssign(config, appFlags), [k \in { APP_ENV } |-> appEnv])

\* mergeConfig filling config from a copy of processEnv
mergeConfig_CopiesEnv(appEnv, appFlags, processEnv, rules) ==
    LET r == RulesLoop(processEnv, rules, 1, [k \in DOMAIN processEnv |-> Str(processEnv[k])])
    IN  IF r.threw THEN r
        ELSE Return(AddEnvAndFlags(r.value, appEnv, appFlags))

mergeConfig(appEnv, appFlags, processEnv, rules) ==
    LET r == RulesLoop(processEnv, rules, 1, EmptyObject)
    IN  IF r.threw THEN r
        ELSE Return(AddEnvAndFlags(r.value, appEnv, appFlags))

\* process.env with the default of every rule written into it where the
\* source has no entry
ProcessEnvAfter_StoresDefaults(processEnv, rules) ==
    LET defaulted ==
            { i \in 1..Len(rules) :
                rules[i].hasDefault /\ rules[i].key \notin DOMAIN processEnv }
    IN  [k \in DOMAIN processEnv \cup { rules[i].key : i \in defaulted } |->
            IF k \in DOMAIN processEnv THEN processEnv[k]
            ELSE toString(rules[CHOOSE i \in defaulted : rules[i].key = k].default)]

\* process.env after mergeConfig(appEnv, appFlags, processEnv, rules): the
\* function tests it with hasOwnProperty and reads it; its assignments are
\* to `supplied` and to config, so every entry is as it was
ProcessEnvAfter(processEnv, rules) == processEnv


(***************************************************************************)
(* Writes to an object that may have been frozen with Object.freeze: on a  *)
(* frozen object an assignment or a delete changes nothing (strict code    *)
(* gets a TypeError, other code is ignored silently).                      *)
(***************************************************************************)
\* obj[key] = val taking effect on frozen objects too
SetProperty_IgnoresFrozen(obj, isFrozen, key, val) == Assign(obj, key, val)

\* obj[key] = val
SetProperty(obj, isFrozen, key, val) ==
    IF isFrozen THEN obj ELSE Assign(obj, key, val)

\* delete obj[key]
DeleteProperty(obj, isFrozen, key) ==
    IF isFrozen THEN obj ELSE [k \in DOMAIN obj \ { key } |-> obj[k]]

\* the static and derived variables config.js sets itself
OTHER_IMPORTANT_VARS ==
    << "O", "T", "H", "E", "R", "_", "I", "M", "P", "O", "R", "T", "A", "N", "T",
       "_", "V", "A", "R", "S" >>
FORCE_SSL == << "F", "O", "R", "C", "E", "_", "S", "S", "L" >>
BlahBlah == << "b", "l", "a", "h", " ", "b", "l", "a", "h" >>


(***************************************************************************)
(* The inputs explored.                                                    *)
(***************************************************************************)
\* values of process.env.APP_ENV handed to determineAppEnv
Overrides ==
    { Undefined, Str(<< >>), Str(live), Str(staging), Str(testing),
      Str(development), Str(production), Str(toUpperCase(live)),
      Str(<< "L", "i", "v", "e" >>), Str(<< "l", "i", "v", "e", " " >>) }

\* addresses a host may have: inside each kind of block of AWS_VPCS, on the
\* edges of a block, and outside every block
HostIps ==
    { Ip(10, 117, 3, 4), Ip(10, 117, 0, 0), Ip(10, 117, 255, 255),
      Ip(10, 118, 0, 1), Ip(10, 119, 7, 7), Ip(10, 120, 0, 0),
      Ip(10, 116, 255, 255), Ip(10, 131, 1, 1), Ip(10, 22, 0, 9),
      Ip(10, 97, 0, 1), Ip(100, 64, 0, 1) }

Iface(family, internal, address) ==
    [family |-> family, internal |-> internal, address |-> address]

Loopback == Iface("IPv4", TRUE, Ip(127, 0, 0, 1))
Loopback6 == Iface("IPv6", TRUE, Ip(0, 0, 0, 1))
External6 == Iface("IPv6", FALSE, Ip(10, 117, 3, 4))

\* values of os.networkInterfaces()
NetworkInterfaces ==
    { << >>, << << Loopback >> >>, << << Loopback, Loopback6 >>, << External6 >> >> }
    \cup { << << Loopback, Loopback6 >>, << External6, Iface("IPv4", FALSE, ip) >> >> :
            ip \in HostIps }
    \cup { << << Iface("IPv4", FALSE, ip) >>, << Iface("IPv4", FALSE, Ip(10, 118, 0, 1)) >> >> :
            ip \in { Ip(10, 117, 3, 4), Ip(10, 97, 0, 1) } }

\* contents of the VPC table: the shipped one, and tables whose blocks
\* overlap, repeat, or name an environment the library does not support
RangeTables ==
    { AWS_VPCS,
      << >>,
      Append(AWS_VPCS, Vpc(Cidr(10, 0, 0, 0, 8), staging)),
      << Vpc(Cidr(10, 117, 0, 0, 16), live), Vpc(Cidr(10, 117, 3, 0, 24), live),
         Vpc(Cidr(10, 118, 0, 0, 16), testing), Vpc(Cidr(10, 118, 0, 0, 16), testing) >>,
      << Vpc(Cidr(10, 117, 0, 0, 16), production), Vpc(Cidr(10, 117, 0, 0, 16), staging),
         Vpc(Cidr(10, 97, 0, 0, 16), production) >>,
      << Vpc(Cidr(10, 0, 0, 0, 8), testing), Vpc(Cidr(10, 117, 0, 0, 16), live),
         Vpc(Cidr(10, 117, 3, 4, 32), staging) >> }

\* names of configuration variables: two plain ones, and two that collide
\* with a flag and with the reserved APP_ENV
PORT == << "P", "O", "R", "T" >>
DEBUG == << "D", "E", "B", "U", "G" >>
HOME == << "H", "O", "M", "E" >>

\* the names given to a rule set of one rule, and to the rules of larger ones
OneRuleKeys == { PORT, IN_LIVE }
ManyRulesKeys == { PORT, DEBUG, APP_ENV }

\* every string of at most n characters of Alphabet
Alphabet == { "0", "1", "-", "x", "Y" }

StringsUpTo(n) == UNION { [1..k -> Alphabet] : k \in 0..n }

Hello == << "H", "e", "l", "l", "o" >>

NamedStrings ==
    BooleanWords \cup
    { toUpperCase(yes), << "T", "r", "u", "e" >>, << "N" >>,
      << "c", "o", "f", "f", "e", "e" >>, << "3", "0", "0", "0" >>,
      << "4", "2", "a", "b", "c" >>, << "-", "1" >>, << "+", "5" >>,
      << "0", "x", "1", "f" >>, << "0", "X", "1", "F" >>, << " ", "4", "2" >>,
      << "-", "0", "x", "1", "0" >>, << "\t", "-", "7", " " >>,
      << "3", ".", "7" >>, << "1", "e", "3" >>, Hello, toLowerCase(Hello) }

WideStrings == StringsUpTo(MaxLen) \cup NamedStrings

Defaults == { Str(Hello), Str(yes), Num(5), Bool(FALSE) }
Types == { "Boolean", "Number", "String", "Date" }

\* every shape of rule for key
AllRules(key) ==
    { Rule(key, req, FALSE, Undefined, FALSE, "none") : req \in BOOLEAN }
    \cup { Rule(key, req, TRUE, d, FALSE, "none") : req \in BOOLEAN, d \in Defaults }
    \cup { Rule(key, req, FALSE, Undefined, TRUE, ty) : req \in BOOLEAN, ty \in Types }
    \cup { Rule(key, req, TRUE, d, TRUE, ty) : req \in BOOLEAN, d \in Defaults, ty \in Types }

\* the shapes used in rule sets of several rules
FewRules(key) ==
    { Rule(key, FALSE, FALSE, Undefined, FALSE, "none"),
      Rule(key, TRUE, FALSE, Undefined, FALSE, "none"),
      Rule(key, FALSE, FALSE, Undefined, TRUE, "Number") }

FewStrings == { << "1" >>, << "a", "b", "c" >> }

Keys(rules) == { rules[i].key : i \in 1..Len(rules) }

\* rule sets of at most n rules with distinct keys
RuleSetsUpTo(n) ==
    { rules \in UNION { [1..k -> UNION { FewRules(key) : key \in ManyRulesKeys }] : k \in 0..n } :
        \A i, j \in 1..Len(rules) : rules[i].key = rules[j].key => i = j }

\* the sources over the given names
Sources(names, strings) == UNION { [D -> strings] : D \in SUBSET names }

\* rule sets of one rule of any shape
OneRuleSets == { << r >> : r \in UNION { AllRules(key) : key \in OneRuleKeys } }

(***************************************************************************)
(* The program: config.js of an application, as the README writes it.      *)
(*   pc         where the start-up code stands: "start", "resolved",       *)
(*              "flagged", "merged", "extended", "exported", or            *)
(*              "resolveThrew" / "mergeThrew" when the call threw; "used"  *)
(*              once another module has written to the exported object     *)
(*   call       the library call being returned from: for determineAppEnv  *)
(*              its argument, the host's interfaces and the VPC table it   *)
(*              read; for mergeConfig the source as it was handed in       *)
(*   appEnv     const APP_ENV                                              *)
(*   appFlags   const flags                                                *)
(*   processEnv process.env, as mergeConfig leaves it                      *)
(*   rules      the rule object handed to mergeConfig                      *)
(*   config     const config                                               *)
(*   error      the error that ended the start-up, if any                  *)
(*   frozen     whether config has been frozen                             *)
(*   consumer   what a module requiring config.js did to the object, and   *)
(*              whether that threw                                         *)
(***************************************************************************)
VARIABLES pc, call, appEnv, appFlags, processEnv, rules, config, error, frozen, consumer

vars ==
    << pc, call, appEnv, appFlags, processEnv, rules, config, error, frozen, consumer >>

NoWrite == [op |-> "none", threw |-> FALSE]

NoCall == [active |-> FALSE]

Init ==
    /\ pc = "start"
    /\ call = NoCall
    /\ appEnv = Undefined
    /\ appFlags = EmptyObject
    /\ processEnv = EmptyObject
    /\ rules = << >>
    /\ config = EmptyObject
    /\ error = NoError
    /\ frozen = FALSE
    /\ consumer = NoWrite

\* const APP_ENV = envLib.determineAppEnv(process.env.APP_ENV);
DetermineAppEnv ==
    /\ pc = "start"
    /\ \E argAppEnv \in Overrides, ifaces \in NetworkInterfaces, vpcs \in RangeTables :
        LET r == determineAppEnv(argAppEnv, ifaces, vpcs)
        IN  /\ call' = [active |-> TRUE, argAppEnv |-> argAppEnv,
                       ifaces |-> ifaces, vpcs |-> vpcs]
            /\ pc' = IF r.threw THEN "resolveThrew" ELSE "resolved"
            /\ appEnv' = IF r.threw THEN Undefined ELSE r.value
            /\ error' = IF r.threw THEN r.error ELSE NoError
    /\ UNCHANGED << appFlags, processEnv, rules, config, frozen, consumer >>

\* const flags = envLib.buildAppFlags(APP_ENV);
BuildAppFlags ==
    /\ pc = "resolved"
    /\ pc' = "flagged"
    /\ call' = NoCall
    /\ appFlags' = buildAppFlags(appEnv)
    /\ UNCHANGED << appEnv, processEnv, rules, config, error, frozen, consumer >>

\* mergeConfig called with source env and rule set rs, its outcome bound to
\* config or ending the start-up
CallMergeConfig(env, rs) ==
    LET r == mergeConfig(appEnv, appFlags, env, rs)
    IN  /\ call' = [active |-> TRUE, processEnv |-> env]
        /\ processEnv' = ProcessEnvAfter(env, rs)
        /\ rules' = rs
        /\ pc' = IF r.threw THEN "mergeThrew" ELSE "merged"
        /\ config' = IF r.threw THEN EmptyObject ELSE r.value
        /\ error' = IF r.threw THEN r.error ELSE NoError

\* the sources tried with rule set rs: its variable absent or any string for
\* one rule of any shape; for several rules of few shapes, their variables
\* absent or one of few strings, and a variable no rule names
SourcesFor(rs) ==
    IF rs \in OneRuleSets THEN Sources(Keys(rs), WideStrings)
    ELSE Sources(Keys(rs) \cup { HOME }, FewStrings)

\* const config = envLib.mergeConfig(APP_ENV, flags, process.env, { .. });
MergeConfig ==
    /\ pc = "flagged"
    /\ \E rs \in OneRuleSets \cup RuleSetsUpTo(MaxRules) :
            \E env \in SourcesFor(rs) : CallMergeConfig(env, rs)
    /\ UNCHANGED << appEnv, appFlags, frozen, consumer >>

\* config.OTHER_IMPORTANT_VARS = 'blah blah'
\* config.FORCE_SSL = (flags.IN_LIVE || flags.IN_STAGING);
SetOtherVars ==
    /\ pc = "merged"
    /\ pc' = "extended"
    /\ config' =
            SetProperty(
                SetProperty(config, frozen, OTHER_IMPORTANT_VARS, Str(BlahBlah)),
                frozen, FORCE_SSL, Or(Get(appFlags, IN_LIVE), Get(appFlags, IN_STAGING)))
    /\ UNCHANGED << call, appEnv, appFlags, processEnv, rules, error, frozen, consumer >>

\* module.exports = Object.freeze(config);
FreezeAndExport ==
    /\ pc = "extended"
    /\ pc' = "exported"
    /\ frozen' = TRUE
    /\ UNCHANGED << call, appEnv, appFlags, processEnv, rules, config, error, consumer >>

\* what a module that requires config.js may try on the object: add an
\* entry, change one, remove one; from strict code or not
ConsumerOps == { "add", "change", "remove" }

\* another part of the application writes to the exported object
ConsumerWrite ==
    /\ pc = "exported"
    /\ pc' = "used"
    /\ \E op \in ConsumerOps, strict \in BOOLEAN :
        /\ config' =
                CASE op = "add" -> SetProperty(config, frozen, HOME, Str(BlahBlah))
                  [] op = "change" -> SetProperty(config, frozen, APP_ENV, Str(production))
                  [] op = "remove" -> DeleteProperty(config, frozen, APP_ENV)
        /\ consumer' = [op |-> op, threw |-> strict /\ frozen]
    /\ UNCHANGED << call, appEnv, appFlags, processEnv, rules, error, frozen >>

Next ==
    \/ DetermineAppEnv
    \/ BuildAppFlags
    \/ MergeConfig
    \/ SetOtherVars
    \/ FreezeAndExport
    \/ ConsumerWrite

Spec == Init /\ [][Next]_vars

(***************************************************************************)
(* mergeConfig called on its own, as the module exports it: with any       *)
(* environment name and any flag object the caller has.                    *)
(***************************************************************************)
\* values of the appEnv argument
DirectEnvs == { Str(live), Str(development), Str(production), Undefined }

\* values of the appFlags argument for environment env: the flags of env,
\* those with an entry named APP_ENV, those of another environment, none
DirectFlags(env) ==
    { buildAppFlags(env),
      Assign(buildAppFlags(env), APP_ENV, Str(testing)),
      buildAppFlags(Str(staging)),
      Assign(EmptyObject, APP_ENV, Bool(TRUE)),
      EmptyObject }

MergeInit ==
    /\ pc = "flagged"
    /\ call = NoCall
    /\ appEnv \in DirectEnvs
    /\ appFlags \in DirectFlags(appEnv)
    /\ processEnv = EmptyObject
    /\ rules = << >>
    /\ config = EmptyObject
    /\ error = NoError
    /\ frozen = FALSE
    /\ consumer = NoWrite

MergeSpec == MergeInit /\ [][MergeConfig]_vars


(***************************************************************************)
(* The claims.  The documented vocabulary they are stated in:              *)
(***************************************************************************)
\* the closed set of environment names
EnvironmentNames == { live, staging, testing, development }

\* a determineAppEnv call has just returned or thrown
Resolving == pc \in { "resolved", "resolveThrew" }

\* the value supplied to the call is a supported environment name
ValidOverride == call.argAppEnv \in { Str(e) : e \in EnvironmentNames }

\* the address the call matched against the table
HostAddress == getServerIp(call.ifaces)

\* the rows of the table that match the host address: the block contains it
\* and names a supported environment
Matching ==
    { i \in 1..Len(call.vpcs) :
        /\ NetmaskContains(call.vpcs[i].cidr, HostAddress)
        /\ call.vpcs[i].env \in EnvironmentNames }

\* C1: a supplied value that is a supported environment name is returned as
\* it is, whatever the host address and the table are.
C1_OverrideWins ==
    (Resolving /\ ValidOverride) =>
        (pc = "resolved" /\ appEnv = call.argAppEnv /\ error = NoError)

\* C1 happens: a supported value is returned although the host address lies
\* in several blocks, none of them of that environment.
C1_Witness ==
    /\ Resolving /\ ValidOverride
    /\ appEnv = call.argAppEnv
    /\ Cardinality(Matching) > 1
    /\ \A i \in Matching : Str(call.vpcs[i].env) # call.argAppEnv

\* C2: with no valid value supplied and the host address in more than one
\* block naming a supported environment, the call throws
\* AmbiguousEnvironment, returns no environment, and the error lists every
\* matching row (environment and CIDR), in table order.
C2_AmbiguousThrows ==
    (Resolving /\ ~ValidOverride /\ Cardinality(Matching) > 1) =>
        /\ pc = "resolveThrew"
        /\ appEnv = Undefined
        /\ error.kind = "AmbiguousEnvironment"
        /\ Len(error.vpcs) = Cardinality(Matching)
        /\ \A i \in Matching : \E j \in 1..Len(error.vpcs) : error.vpcs[j] = call.vpcs[i]
        /\ \A j \in 1..Len(error.vpcs) : \E i \in Matching : error.vpcs[j] = call.vpcs[i]

\* C2 happens: the call threw although every matching block names the same
\* environment.
C2_Witness ==
    /\ pc = "resolveThrew"
    /\ error.kind = "AmbiguousEnvironment"
    /\ Len(error.vpcs) > 1
    /\ \A j \in 1..Len(error.vpcs) : error.vpcs[j].env = error.vpcs[1].env

\* C3: a value that is absent or no supported environment name is ignored:
\* with exactly one matching block the call returns its environment, with
\* none it returns development.
C3_FallsThroughToAddress ==
    (Resolving /\ ~ValidOverride) =>
        /\ Cardinality(Matching) = 1 =>
            /\ pc = "resolved"
            /\ \A i \in Matching : appEnv = Str(call.vpcs[i].env)
        /\ Cardinality(Matching) = 0 =>
            /\ pc = "resolved"
            /\ appEnv = Str(development)

\* C3 happens: an unsupported value was supplied, the host has no external
\* IPv4 address, the table is not empty, and development is returned.
C3_Witness ==
    /\ pc = "resolved"
    /\ call.argAppEnv = Str(production)
    /\ HostAddress = Ip(0, 0, 0, 0)
    /\ Len(call.vpcs) > 0
    /\ appEnv = Str(development)

\* C3 also happens with a single matching block.
C3_WitnessOneMatch ==
    /\ pc = "resolved"
    /\ call.argAppEnv = Str(toUpperCase(live))
    /\ Cardinality(Matching) = 1
    /\ appEnv = Str(staging)


\* a mergeConfig call has just returned or thrown
Merging == pc \in { "merged", "mergeThrew" }

\* the source has no entry for the key of rule i
Absent(i) == rules[i].key \notin DOMAIN processEnv

\* no rule before rule i, in the order of the rule set's keys, fails
NoEarlierFailure(i) ==
    \A j \in 1..(i - 1) : ~ProcessRule(processEnv, rules[j]).threw

IN_TESTING == << "I", "N", "_", "T", "E", "S", "T", "I", "N", "G" >>
IN_DEVELOPMENT == << "I", "N", "_", "D", "E", "V", "E", "L", "O", "P", "M", "E", "N", "T" >>

\* the keys of the FlagSet, and those together with the reserved key
FlagKeys == { IN_LIVE, IN_STAGING, IN_TESTING, IN_DEVELOPMENT, IN_PRODUCTION }
ReservedKeys == FlagKeys \cup { APP_ENV }

\* C4 as claimed: every required rule whose key is absent makes mergeConfig
\* throw MissingRequiredVariable naming that very key and produce no
\* configuration, whatever the other rules and source entries are.  (Runs
\* ended by the runtime's TypeError are left aside: the claim fails without
\* them.)
C4_Original ==
    (Merging /\ error.kind # "TypeError") =>
        \A i \in 1..Len(rules) : (rules[i].required /\ Absent(i)) =>
            /\ pc = "mergeThrew"
            /\ error = MissingRequiredVariable(rules[i].key)
            /\ config = EmptyObject

\* C4 amended: every required rule whose key is absent makes mergeConfig
\* throw and produce no configuration; the error is MissingRequiredVariable
\* naming that key when no earlier rule fails, since mergeConfig stops at the
\* first rule that fails.
C4_RequiredAbsentThrows ==
    Merging =>
        \A i \in 1..Len(rules) : (rules[i].required /\ Absent(i)) =>
            /\ pc = "mergeThrew"
            /\ config = EmptyObject
            /\ NoEarlierFailure(i) => error = MissingRequiredVariable(rules[i].key)

\* C4 happens: a rule was processed and its key supplied, then a required
\* rule with an absent key ended the merge.
C4_Witness ==
    /\ pc = "mergeThrew"
    /\ \E i \in 2..Len(rules) :
        /\ rules[i].required /\ Absent(i) /\ NoEarlierFailure(i)
        /\ ~Absent(1)
        /\ error = MissingRequiredVariable(rules[i].key)
        /\ config = EmptyObject

C5_WitnessDefaultStored ==
    /\ pc = "merged"
    /\ Len(rules) = 1
    /\ ~rules[1].required /\ rules[1].hasDefault /\ ~rules[1].hasType /\ Absent(1)
    /\ rules[1].key \notin ReservedKeys
    /\ config[rules[1].key] = Num(5)

\* C6: the keys of a configuration mergeConfig returns are rule keys, flag
\* keys or APP_ENV; a key only the source has is not among them.
C6_Whitelist ==
    pc = "merged" =>
        /\ DOMAIN config \subseteq Keys(rules) \cup DOMAIN appFlags \cup { APP_ENV }
        /\ \A k \in DOMAIN processEnv :
            k \notin Keys(rules) \cup DOMAIN appFlags \cup { APP_ENV } => k \notin DOMAIN config

\* C6 happens: the source had a variable no rule names, and it was left out.
C6_Witness ==
    /\ pc = "merged"
    /\ HOME \in DOMAIN processEnv
    /\ HOME \notin DOMAIN config
    /\ Len(rules) > 0

DocTrueWords == { << "y", "e", "s" >>, << "t", "r", "u", "e" >>, << "y" >>, << "t" >> }
DocBooleanWords ==
    DocTrueWords \cup { << "f", "a", "l", "s", "e" >>, << "n", "o" >>, << "f" >>, << "n" >> }

\* rule i has the given type and the source supplies its key
Supplied(i, type) ==
    /\ rules[i].hasType /\ rules[i].type = type
    /\ ~Absent(i)

\* the source string s can be read as a Boolean
ReadsAsBoolean(s) == toLowerCase(s) \in DocBooleanWords \/ ~IsNaN(parseInt(s))

\* the Boolean the source string s stands for
BooleanOf(s) ==
    Bool(\/ toLowerCase(s) \in DocTrueWords
         \/ (~IsNaN(parseInt(s)) /\ parseInt(s).n # 0))

\* C8 as claimed: a Boolean-typed key supplied as string s throws
\* InvalidVariableType iff s is none of the words and does not parse as an
\* integer; otherwise the value stored under the key is true iff s is a word
\* for true or parses as a nonzero integer.
C8_Original ==
    Merging =>
        \A i \in 1..Len(rules) : Supplied(i, "Boolean") =>
            LET s == processEnv[rules[i].key]
                invalid == InvalidVariableType(rules[i].key, "Boolean")
            IN  /\ ~ReadsAsBoolean(s) =>
                    /\ pc = "mergeThrew"
                    /\ NoEarlierFailure(i) => error = invalid
                /\ ReadsAsBoolean(s) =>
                    /\ error # invalid
                    /\ pc = "merged" => config[rules[i].key] = BooleanOf(s)

\* C8 amended: the same, the stored value being that of the coercion
\* provided the key is no flag key and not APP_ENV (those entries are
\* overwritten by the flags and the environment).
C8_BooleanCoercion ==
    Merging =>
        \A i \in 1..Len(rules) : Supplied(i, "Boolean") =>
            LET s == processEnv[rules[i].key]
                invalid == InvalidVariableType(rules[i].key, "Boolean")
            IN  /\ ~ReadsAsBoolean(s) =>
                    /\ pc = "mergeThrew"
                    /\ NoEarlierFailure(i) => error = invalid
                /\ ReadsAsBoolean(s) =>
                    /\ error # invalid
                    /\ (pc = "merged" /\ rules[i].key \notin ReservedKeys) =>
                            config[rules[i].key] = BooleanOf(s)

\* C8 happens: PORT is Boolean-typed and supplied as "-1", and true is stored.
C8_Witness ==
    /\ pc = "merged"
    /\ Len(rules) = 1 /\ rules[1].key = PORT /\ Supplied(1, "Boolean")
    /\ processEnv[PORT] = << "-", "1" >>
    /\ config[PORT] = Bool(TRUE)

\* C8 also happens with "0" (false is stored) and with "coffee" (it throws).
C8_WitnessZero ==
    /\ pc = "merged"
    /\ Len(rules) = 1 /\ rules[1].key = PORT /\ Supplied(1, "Boolean")
    /\ processEnv[PORT] = << "0" >>
    /\ config[PORT] = Bool(FALSE)

C8_WitnessCoffee ==
    /\ pc = "mergeThrew"
    /\ Len(rules) = 1 /\ rules[1].key = PORT /\ Supplied(1, "Boolean")
    /\ processEnv[PORT] = << "c", "o", "f", "f", "e", "e" >>
    /\ error = InvalidVariableType(PORT, "Boolean")

\* the decimal digit c stands for, or -1
DecimalDigit(c) ==
    IF \E d \in 0..9 : DecDigits[d + 1] = c
    THEN CHOOSE d \in 0..9 : DecDigits[d + 1] = c
    ELSE -1

\* s without one leading sign
Unsigned(s) == IF Len(s) > 0 /\ s[1] \in { "+", "-" } THEN Tail(s) ELSE s

\* s has a leading integer prefix, optionally signed
HasIntegerPrefix(s) == Len(Unsigned(s)) > 0 /\ DecimalDigit(Unsigned(s)[1]) >= 0

\* the value of the longest run of decimal digits s starts with
RECURSIVE DigitRun(_, _)
DigitRun(s, acc) ==
    IF Len(s) > 0 /\ DecimalDigit(s[1]) >= 0
    THEN DigitRun(Tail(s), acc * 10 + DecimalDigit(s[1]))
    ELSE acc

\* the integer of the leading integer prefix of s
IntegerPrefix(s) ==
    IF Len(s) > 0 /\ s[1] = "-" THEN 0 - DigitRun(Unsigned(s), 0)
    ELSE DigitRun(Unsigned(s), 0)

\* after the optional sign, s starts with 0x or 0X
HexPrefixed(s) ==
    Len(Unsigned(s)) >= 2 /\ Unsigned(s)[1] = "0" /\ Unsigned(s)[2] \in { "x", "X" }

\* C9 as claimed: a Number-typed key supplied as string s with a leading
\* integer prefix (optionally signed) stores that integer; with no such
\* prefix mergeConfig throws InvalidVariableType and produces no
\* configuration.
C9_Original ==
    Merging =>
        \A i \in 1..Len(rules) : Supplied(i, "Number") =>
            LET s == processEnv[rules[i].key]
                invalid == InvalidVariableType(rules[i].key, "Number")
            IN  /\ HasIntegerPrefix(s) =>
                    /\ error # invalid
                    /\ pc = "merged" => config[rules[i].key] = Num(IntegerPrefix(s))
                /\ ~HasIntegerPrefix(s) =>
                    /\ pc = "mergeThrew"
                    /\ config = EmptyObject
                    /\ NoEarlierFailure(i) => error = invalid

\* C9 amended: the string is read as parseInt reads it: leading white space
\* is skipped, and after the optional sign a 0x or 0X prefix makes the
\* digits hexadecimal; when no digit can be read mergeConfig throws
\* InvalidVariableType and produces no configuration; otherwise the integer
\* read is stored, which is the leading decimal prefix when s has one that is
\* not followed by x -- provided the key is no flag key and not APP_ENV.
C9_NumberCoercion ==
    Merging =>
        \A i \in 1..Len(rules) : Supplied(i, "Number") =>
            LET s == processEnv[rules[i].key]
                invalid == InvalidVariableType(rules[i].key, "Number")
                stored == pc = "merged" /\ rules[i].key \notin ReservedKeys
            IN  /\ ~IsNaN(parseInt(s)) =>
                    /\ error # invalid
                    /\ stored => config[rules[i].key] = parseInt(s)
                /\ (HasIntegerPrefix(s) /\ ~HexPrefixed(s)) =>
                    /\ error # invalid
                    /\ stored => config[rules[i].key] = Num(IntegerPrefix(s))
                /\ IsNaN(parseInt(s)) =>
                    /\ pc = "mergeThrew"
                    /\ config = EmptyObject
                    /\ NoEarlierFailure(i) => error = invalid

\* C9 happens: PORT is Number-typed and supplied as "42abc", and 42 is stored.
C9_Witness ==
    /\ pc = "merged"
    /\ Len(rules) = 1 /\ rules[1].key = PORT /\ Supplied(1, "Number")
    /\ processEnv[PORT] = << "4", "2", "a", "b", "c" >>
    /\ config[PORT] = Num(42)

\* C9 also happens where the claim was amended: "0x1f" stores 31, and " 42",
\* which has no leading integer prefix, stores 42.
C9_WitnessHex ==
    /\ pc = "merged"
    /\ Len(rules) = 1 /\ rules[1].key = PORT /\ Supplied(1, "Number")
    /\ processEnv[PORT] = << "0", "x", "1", "f" >>
    /\ config[PORT] = Num(31)

C9_WitnessWhiteSpace ==
    /\ pc = "merged"
    /\ Len(rules) = 1 /\ rules[1].key = PORT /\ Supplied(1, "Number")
    /\ processEnv[PORT] = << " ", "4", "2" >>
    /\ config[PORT] = Num(42)

\* the flags have been built
Flagged == pc \in { "flagged", "merged", "mergeThrew" }

\* the key of the flag of environment e
DocFlagKey(e) ==
    CASE e = live -> IN_LIVE
      [] e = staging -> IN_STAGING
      [] e = testing -> IN_TESTING
      [] e = development -> IN_DEVELOPMENT

C11_WitnessThrew ==
    /\ pc = "mergeThrew"
    /\ Len(rules) = 2 /\ ~Absent(1) /\ NoEarlierFailure(2)
    /\ processEnv = call.processEnv

C11_WitnessCoerced ==
    /\ pc = "merged"
    /\ Len(rules) = 1 /\ rules[1].key = PORT /\ Supplied(1, "Number")
    /\ config[PORT] = Num(1)
    /\ processEnv[PORT] = << "1" >>


\* mergeConfig has returned a configuration
Returned == pc \in { "merged", "extended", "exported", "used" }

C12_WitnessChange ==
    /\ pc = "used"
    /\ consumer = [op |-> "change", threw |-> FALSE]
    /\ config[APP_ENV] = appEnv

C12_WitnessRemove ==
    /\ pc = "used"
    /\ consumer = [op |-> "remove", threw |-> FALSE]
    /\ APP_ENV \in DOMAIN config


\* C13: for a rule with no type whose key the source has, the value in the
\* configuration under that key is the source string itself, character for
\* character, provided the key is no flag key and not APP_ENV; and such a
\* rule never makes mergeConfig fail.
C13_UntypedPassThrough ==
    Merging =>
        \A i \in 1..Len(rules) :
            (~rules[i].hasType /\ rules[i].key \in DOMAIN call.processEnv) =>
                /\ pc = "mergeThrew" => error.key # rules[i].key
                /\ (pc = "merged" /\ rules[i].key \notin ReservedKeys) =>
                        config[rules[i].key] = Str(call.processEnv[rules[i].key])

\* C13 happens: PORT has no type and the source gives it a string with
\* white space around it, which is stored as it is.
C13_Witness ==
    /\ pc = "merged"
    /\ Len(rules) = 1 /\ rules[1].key = PORT /\ ~rules[1].hasType
    /\ ~Absent(1)
    /\ call.processEnv[PORT] = << "\t", "-", "7", " " >>
    /\ config[PORT] = Str(<< "\t", "-", "7", " " >>)

\* C13 also happens with upper-case letters, the rule having a default.
C13_WitnessUpperCase ==
    /\ pc = "merged"
    /\ Len(rules) = 1 /\ rules[1].key = PORT /\ ~rules[1].hasType
    /\ rules[1].hasDefault
    /\ ~Absent(1)
    /\ call.processEnv[PORT] = Hello
    /\ config[PORT] = Str(Hello)

\* rule i is not required, declares a default, and the source has no entry
\* for its key, which is no flag key and not APP_ENV
Defaulted(i) ==
    /\ ~rules[i].required /\ rules[i].hasDefault /\ Absent(i)
    /\ rules[i].key \notin ReservedKeys

C14_WitnessHello ==
    /\ pc = "mergeThrew"
    /\ Len(rules) = 1 /\ rules[1].key = PORT /\ Defaulted(1)
    /\ rules[1].hasType /\ rules[1].type = "String"
    /\ rules[1].default = Str(Hello)
    /\ error = InvalidVariableType(PORT, "String")

C14_WitnessNumber ==
    /\ pc = "merged"
    /\ Len(rules) = 1 /\ rules[1].key = PORT /\ Defaulted(1)
    /\ rules[1].hasType /\ rules[1].type = "Number"
    /\ rules[1].default = Num(5)
    /\ config[PORT] = Num(5)


\* C15: a String-typed key the source supplies as any string s, upper-case
\* letters included, is accepted and s is stored unchanged (under a key that
\* is no flag key and not APP_ENV): the String check rejects no source
\* string for its letter case.
C15_StringAccepted ==
    Merging =>
        \A i \in 1..Len(rules) : (Supplied(i, "String") /\ NoEarlierFailure(i)) =>
            /\ ~(pc = "mergeThrew" /\ error.key = rules[i].key)
            /\ (pc = "merged" /\ rules[i].key \notin ReservedKeys) =>
                    config[rules[i].key] = Str(call.processEnv[rules[i].key])

\* C16: a rule that is not required, declares a type (Boolean, Number or
\* String) and no default, its key absent from the source, raises no error:
\* mergeConfig goes on to the remaining rules, and returns when none of them
\* fails.
C16_AbsentTypedSkipped ==
    Merging =>
        \A i \in 1..Len(rules) :
            (/\ ~rules[i].required /\ ~rules[i].hasDefault /\ Absent(i)
             /\ rules[i].hasType /\ rules[i].type \in { "Boolean", "Number", "String" }
             /\ NoEarlierFailure(i)) =>
                ~(pc = "mergeThrew" /\ error.key = rules[i].key)


\* the type tags mergeConfig supports
SupportedTypes == { "Boolean", "Number", "String" }

\* C18: when a rule declares a type tag other than Boolean, Number or
\* String, mergeConfig returns no configuration: it throws UnrecognizedType
\* naming that rule's key -- whether or not the source supplies the key, and
\* whatever value it supplies.
C18_UnrecognizedTypeAtSetup ==
    Merging =>
        \A i \in 1..Len(rules) :
            (rules[i].hasType /\ rules[i].type \notin SupportedTypes /\ NoEarlierFailure(i)) =>
                /\ pc = "mergeThrew"
                /\ config = EmptyObject
                /\ error = UnrecognizedType(rules[i].key, rules[i].type)


\* C17: in a configuration mergeConfig returns, a rule key that is also a
\* key of the flag set holds the flag's value, and a rule key named APP_ENV
\* holds the environment passed to mergeConfig, whatever the source or the
\* rule's default give for it; and APP_ENV holds the environment passed also
\* when the flag set has a key named APP_ENV.
C17_FlagsAndEnvWin ==
    pc = "merged" =>
        /\ \A i \in 1..Len(rules) :
            /\ rules[i].key \in DOMAIN appFlags \ { APP_ENV } =>
                    config[rules[i].key] = appFlags[rules[i].key]
            /\ rules[i].key = APP_ENV => config[APP_ENV] = appEnv
        /\ config[APP_ENV] = appEnv

\* C17 happens: the rule set has IN_LIVE, the source supplies it, the flag
\* set has IN_LIVE and also a key APP_ENV holding another name than the
\* environment passed; the result has the flag and the environment passed.
C17_Witness ==
    /\ pc = "merged"
    /\ Len(rules) = 1 /\ rules[1].key = IN_LIVE /\ ~Absent(1)
    /\ IN_LIVE \in DOMAIN appFlags /\ Str(call.processEnv[IN_LIVE]) # appFlags[IN_LIVE]
    /\ APP_ENV \in DOMAIN appFlags /\ appFlags[APP_ENV] # appEnv
    /\ config[IN_LIVE] = appFlags[IN_LIVE]
    /\ config[APP_ENV] = appEnv

\* C17 also happens for a rule named APP_ENV that the source supplies.
C17_WitnessAppEnvRule ==
    /\ pc = "merged"
    /\ \E i \in 1..Len(rules) :
        /\ rules[i].key = APP_ENV /\ ~Absent(i)
        /\ Str(call.processEnv[APP_ENV]) # appEnv
    /\ APP_ENV \in DOMAIN appFlags
    /\ config[APP_ENV] = appEnv


C19_WitnessFlagRule ==
    /\ pc = "merged"
    /\ Len(rules) = 1 /\ rules[1].key = IN_LIVE /\ ~Absent(1)
    /\ call.processEnv[IN_LIVE] = true
    /\ appEnv = Str(staging)
    /\ config[IN_LIVE] = Bool(FALSE)
    /\ config[IN_STAGING] = Bool(TRUE)

====
